---- MODULE Spec2Model ----
(***************************************************************************)
(* State reconciliation and command confirmation of one BlueAirDevice, the *)
(* fan-speed debounce, humidity control loop and LED switch of its         *)
(* BlueAirAccessory, the start-up and polling timers of BlueAirPlatform,   *)
(* and the fan-speed mapping between HomeKit and the device.               *)
(*                                                                         *)
(* The device object lives on a single-threaded event loop: every action   *)
(* below is one synchronous block of the source, i.e. the code between two *)
(* awaits.  The per-device Mutex (async-mutex) is a FIFO lock: acquire()   *)
(* takes the lock at once when it is free and otherwise appends the caller *)
(* to a queue; release() hands the lock to the head of the queue.  The     *)
(* continuation of `await mutex.acquire()` runs in a later microtask, so   *)
(* "lock granted" and "continuation ran" are two different moments.        *)
(*                                                                         *)
(* Breakpoint concentrations and the pm10 and voc readings are held in     *)
(* tenths of a unit (9.0 is 90); a pm2_5 reading is held in hundredths     *)
(* (9.04 is 904), so that its rounding to one decimal is visible.          *)
(* A property whose value is undefined is modelled as an absent key.       *)
(***************************************************************************)
EXTENDS Integers, Sequences, FiniteSets, TLC

VARIABLES
    variant,         \* which definition of BlueAirDevice is the one running
    state,           \* BlueAirDevice.state
    sensorData,      \* BlueAirDevice.sensorData
    currentChanges,  \* BlueAirDevice.currentChanges (the pending buffer)
    mutexHolder,     \* ticket that owns BlueAirDevice.mutex, or NoTicket
    mutexQueue,      \* tickets waiting in mutex.acquire(), FIFO
    cmdPc,           \* position of every setState call
    cmdAttr,         \* its attribute argument
    cmdVal,          \* its value argument
    request,         \* blueAirApi.setDeviceStatus of that call: none/inflight/ok/failed
    gotSignal,       \* the request whose setStateDone the call's listener consumed (0: none)
    cmdWrite,        \* where the call's confirmed delta is: none/buffered/applied
    pollPc,          \* position of every updateState call
    pollArg,         \* its newState argument
    observed,        \* the snapshot the "stateUpdated" listeners saw at the last emission
    aqiCall,         \* calls of calculateAqi so far, what the last one read and returned
    notified,        \* payload of the last "stateUpdated" emission
    notifyCount,     \* number of "stateUpdated" emissions
    expected,        \* last-write-wins fold of every delta over the initial snapshot
    last_brightness, \* BlueAirDevice.last_brightness
    led,             \* setLedOn calls so far, the last one's value, and the brightness
                     \* the snapshot held when the LED was switched off
    now,             \* Date.now(), in ms since the accessory was constructed
    pendingFanSpeed, \* BlueAirAccessory.pendingFanSpeed: <<>> (undefined) or <<speed>>
    fanSpeedDebounceTimer,  \* BlueAirAccessory.fanSpeedDebounceTimer: armed or not, and when due
    effectsInFlight, \* timer callbacks of setRotationSpeed suspended in device.setState
    lastCall,        \* setRotationSpeed calls so far, time and device speed of the last
    lastRun,         \* effect runs so far, time and speed of the last, and the call it followed
    bursts,          \* bursts of setRotationSpeed calls so far (calls less than the window apart)
    humidityAutoControlEnabled,  \* BlueAirAccessory.humidityAutoControlEnabled
    lastManualOverride,  \* BlueAirAccessory.lastManualOverride
    lastAutoAdjust,  \* BlueAirAccessory.lastAutoAdjust
    targetHumidity,  \* configDev.targetHumidity: <<>> (undefined) or <<percent>>
    targetCall,      \* the value proposed by the setTargetRelativeHumidity call that is
                     \* suspended in device.setState; <<>> when none is
    autoEvals,       \* runs of maybeAutoAdjustFanSpeed that reached the comparison
    autoAdjust,      \* commands of maybeAutoAdjustFanSpeed so far, and what the last one was
    platformDef,     \* which definition of BlueAirPlatform is the one running
    pollingInterval, \* platformConfig.pollingInterval
    initPc,          \* getInitialDeviceStates: notStarted/inFlight/waiting (retry timer)/done
    initArgs,        \* retryCount and maxRetries of the attempt in flight or scheduled
    initAttempts,    \* calls of getInitialDeviceStates so far
    firstFailure,    \* what the first failed attempt failed with, "none" before
    devicesAdded,    \* whether addDevice has registered the "setState" handler
    polling,         \* BlueAirPlatform.polling: null, or a timer pending or spent
    otherTimers,     \* pending timers of getValidDevicesStatus that this.polling does not hold
    pollsInFlight,   \* calls of getValidDevicesStatus suspended in getDeviceStatus
    pollAttempts,    \* calls of getValidDevicesStatus so far
    retryCount,      \* BlueAirPlatform.retryCount
    handlersInFlight,\* "setState" handlers suspended in setDeviceStatus
    handlersRun,     \* "setState" handlers started so far
    lastPoll,        \* how the last settled call of getValidDevicesStatus ended
    constantsDef,    \* which definition of the fan-speed mapping is the one running
    origin,          \* the side the value being converted came from: homekit or device
    hkValues,        \* the HomeKit percentages of the conversion chain, oldest first
    deviceValues     \* the device-side values of the conversion chain, oldest first

deviceVars == <<variant, state, sensorData, currentChanges, mutexHolder, mutexQueue,
          cmdPc, cmdAttr, cmdVal, request, gotSignal, cmdWrite,
          pollPc, pollArg, observed, aqiCall, notified, notifyCount, expected,
          last_brightness, led>>

\* The LED fields, which only setLedOn writes.
ledVars == <<last_brightness, led>>

\* The fields and ghosts of the humidity control loop that the fan-speed setter
\* leaves alone.
controlVars == <<lastAutoAdjust, targetHumidity, targetCall, autoEvals, autoAdjust>>

accessoryVars == <<now, pendingFanSpeed, fanSpeedDebounceTimer, effectsInFlight,
                   lastCall, lastRun, bursts,
                   humidityAutoControlEnabled, lastManualOverride, controlVars>>

platformVars == <<platformDef, pollingInterval, initPc, initArgs, initAttempts,
                  firstFailure, devicesAdded, polling, otherTimers, pollsInFlight,
                  pollAttempts, retryCount, handlersInFlight, handlersRun, lastPoll>>

mappingVars == <<constantsDef, origin, hkValues, deviceValues>>

vars == <<deviceVars, accessoryVars, platformVars, mappingVars>>

----------------------------------------------------------------------------
(* Bounds *)

MaxCmds == 2
MaxPolls == 1
MaxCalls == 3
MaxTime == 9
MaxUpdates == 3
MaxWindows == 1
MaxInputs == 1
MaxInitAttempts == 7
MaxAttempts == 6
MaxLedCalls == 3
MaxConversions == 2

CmdIds == 1..MaxCmds
PollIds == 1..MaxPolls

----------------------------------------------------------------------------
(* Partial maps (JavaScript objects used as key/value bags) *)

EmptyMap == [k \in {} |-> 0]

\* An assignment of b alone, without the spread of a.
SpreadSecond(a, b) == b

\* { ...a, ...b }
Spread(a, b) ==
    [k \in (DOMAIN a) \cup (DOMAIN b) |-> IF k \in DOMAIN b THEN b[k] ELSE a[k]]

NoChanges == [state |-> EmptyMap, sensorData |-> EmptyMap]

----------------------------------------------------------------------------
(* AQI tables and calculation *)

AQI_LO == <<0, 51, 101, 151, 201, 301>>
AQI_HI == <<50, 100, 150, 200, 300, 500>>

CONC_LO(sensor) ==
    CASE sensor = "PM2_5" -> <<0, 91, 355, 555, 1255, 2255>>
      [] sensor = "PM10"  -> <<0, 550, 1550, 2550, 3550, 4250>>
      [] sensor = "VOC"   -> <<0, 2210, 6610, 14310, 22010, 33010>>

CONC_HI(sensor) ==
    CASE sensor = "PM2_5" -> <<90, 354, 554, 1254, 2254, 3254>>
      [] sensor = "PM10"  -> <<540, 1540, 2540, 3540, 4240, 6040>>
      [] sensor = "VOC"   -> <<2200, 6600, 14300, 22000, 33000, 55000>>

\* Math.round of the non-negative rational num / den
Round(num, den) == (2 * num + den) \div (2 * den)

\* A row search that leaves the upper edge of a row out.
calculateAqiForSensorOpen(value, sensor) ==
    LET rows == {i \in 1..Len(AQI_LO) :
                    value >= CONC_LO(sensor)[i] /\ value < CONC_HI(sensor)[i]}
    IN  IF rows = {} THEN 0
        ELSE LET i == CHOOSE r \in rows : \A q \in rows : r <= q
             IN  Round((AQI_HI[i] - AQI_LO[i]) * (value - CONC_LO(sensor)[i])
                         + AQI_LO[i] * (CONC_HI(sensor)[i] - CONC_LO(sensor)[i]),
                       CONC_HI(sensor)[i] - CONC_LO(sensor)[i])

\* A row search that gives the top of the index scale when no row holds the value.
calculateAqiForSensorClamped(value, sensor) ==
    LET rows == {i \in 1..Len(AQI_LO) :
                    value >= CONC_LO(sensor)[i] /\ value <= CONC_HI(sensor)[i]}
    IN  IF rows = {} THEN AQI_HI[Len(AQI_HI)]
        ELSE LET i == CHOOSE r \in rows : \A q \in rows : r <= q
             IN  Round((AQI_HI[i] - AQI_LO[i]) * (value - CONC_LO(sensor)[i])
                         + AQI_LO[i] * (CONC_HI(sensor)[i] - CONC_LO(sensor)[i]),
                       CONC_HI(sensor)[i] - CONC_LO(sensor)[i])

\* The first row whose closed interval holds the value gives the rounded linear
\* interpolation; no row gives 0.
calculateAqiForSensor(value, sensor) ==
    LET rows == {i \in 1..Len(AQI_LO) :
                    value >= CONC_LO(sensor)[i] /\ value <= CONC_HI(sensor)[i]}
    IN  IF rows = {} THEN 0
        ELSE LET i == CHOOSE r \in rows : \A q \in rows : r <= q
             IN  Round((AQI_HI[i] - AQI_LO[i]) * (value - CONC_LO(sensor)[i])
                         + AQI_LO[i] * (CONC_HI(sensor)[i] - CONC_LO(sensor)[i]),
                       CONC_HI(sensor)[i] - CONC_LO(sensor)[i])

\* A maximum that looks at its first argument only.
FirstOf3(a, b, c) == a

\* Math.max(a, b, c)
Max3(a, b, c) ==
    IF a >= b /\ a >= c THEN a ELSE IF b >= c THEN b ELSE c

\* `x || 0`
OrZero(data, k) == IF k \in DOMAIN data THEN data[k] ELSE 0

\* Math.round(x * 10) / 10 of a reading in hundredths, in tenths
RoundToTenths(x) == Round(x, 10)

\* The aqi entry computed from the readings in data; no entry when it is undefined.
calculateAqi(data) ==
    IF {"pm2_5", "pm10", "voc"} \cap DOMAIN data = {} THEN EmptyMap
    ELSE [k \in {"aqi"} |->
            Max3(calculateAqiForSensor(RoundToTenths(OrZero(data, "pm2_5")), "PM2_5"),
                 calculateAqiForSensor(OrZero(data, "pm10"), "PM10"),
                 calculateAqiForSensor(OrZero(data, "voc"), "VOC"))]

----------------------------------------------------------------------------
(* Constants of the accessory *)

FAN_SPEED_MAX == 11

\* The delay of the debounce timer of setRotationSpeed, in ms.
DEBOUNCE_MS == 300

\* Time passes in steps of this many ms; MaxTime counts these steps.
Tick == 100

----------------------------------------------------------------------------
(* Inputs *)

Variants == {"part_003", "accessory_1", "accessory_2"}

\* The definitions with distinct setState and notifyStateUpdate: the first
\* BlueAirDevice of accessory.ts has those of part_003 statement for statement
\* and differs from it in the key test of updateState only.
CommandVariants == {"part_003", "accessory_2"}

\* The status the device was constructed from.
InitialState ==
    [standby |-> TRUE, fanspeed |-> 1, nightmode |-> FALSE, brightness |-> 50]

InitialSensorData == [pm2_5 |-> 500, pm10 |-> 100, voc |-> 0]

NoReport == [state |-> EmptyMap, sensorData |-> EmptyMap]

\* Arguments of setState.
Commands ==
    << [attribute |-> "standby", value |-> FALSE],
       [attribute |-> "standby", value |-> TRUE],
       [attribute |-> "nightmode", value |-> TRUE],
       [attribute |-> "unknownAttr", value |-> FALSE] >>

\* Device statuses the poller delivers with "update".
Reports ==
    << [state |-> [fanspeed |-> 3], sensorData |-> EmptyMap],
       [state |-> [fanspeed |-> 1, brightness |-> 30], sensorData |-> [pm10 |-> 540]] >>

----------------------------------------------------------------------------
(* The mutex *)

NoTicket == <<"none", 0>>

\* An acquire that gives up when the lock is busy instead of queueing.
AcquireOrSkip(holder, queue, t) ==
    IF holder = NoTicket
    THEN [holder |-> t, queue |-> queue]
    ELSE [holder |-> holder, queue |-> queue]

\* mutex.acquire(): the lock is taken at once when free, else the caller queues.
Acquire(holder, queue, t) ==
    IF holder = NoTicket
    THEN [holder |-> t, queue |-> queue]
    ELSE [holder |-> holder, queue |-> Append(queue, t)]

\* A release that frees the lock and forgets the callers waiting for it.
ReleaseForget(holder, queue) == [holder |-> NoTicket, queue |-> <<>>]

\* release(): the lock passes to the longest waiting caller.
Release(holder, queue) ==
    IF queue = <<>>
    THEN [holder |-> NoTicket, queue |-> <<>>]
    ELSE [holder |-> Head(queue), queue |-> Tail(queue)]

\* A continuation that does not wait for the lock.
GrantedAlways(holder, t) == TRUE

\* `await this.mutex.acquire()` resumes the caller that owns the lock.
Granted(holder, t) == holder = t

----------------------------------------------------------------------------
(* BlueAirDevice *)

\* A test that takes every swapped-out buffer for a non-empty one.
HasChangesAlways(changes) == TRUE

\* hasChanges: the buffer has at least one state key or one sensor key.
hasChanges(changes) ==
    DOMAIN changes.state # {} \/ DOMAIN changes.sensorData # {}

\* A fold that forgets what the buffer already held.
FoldReplace(changes, newState, newSensorData) ==
    [state |-> newState, sensorData |-> newSensorData]

\* First statement of notifyStateUpdate: the delta is folded into the pending buffer.
Fold(changes, newState, newSensorData) ==
    [state |-> Spread(changes.state, newState),
     sensorData |-> Spread(changes.sensorData, newSensorData)]

\* An unchanged test with the presence test negated.
UnchangedIfMissing(st, attribute, value) ==
    attribute \notin DOMAIN st

\* `attribute in this.state && this.state[attribute] === value`
Unchanged(st, attribute, value) ==
    attribute \in DOMAIN st /\ st[attribute] = value

\* Whether this definition of setState rejects the attribute.
Invalid(v, st, attribute) ==
    v = "accessory_2" /\ attribute \notin DOMAIN st

\* The newState a confirmed command passes to notifyStateUpdate.
ConfirmedDelta(v, attribute, value) ==
    LET own == [k \in {attribute} |-> value]
    IN  IF attribute = "nightmode" /\ value = TRUE
        THEN IF v = "accessory_2"
             THEN Spread(own, [fanspeed |-> 11, brightness |-> 0])
             ELSE Spread(own, [brightness |-> 0])
        ELSE own

\* The sensor keys whose change makes updateState recompute the AQI.
AqiSourceKeys(v) ==
    IF v = "part_003" THEN {"pm2_5", "pm10", "voc"} ELSE {"pm25", "pm10", "voc"}

\* A diff that finds no key changed.
ChangedNone(held, reported) == EmptyMap

\* The keys of a report whose value differs from the one held.
Changed(held, reported) ==
    LET ks == {k \in DOMAIN reported : k \notin DOMAIN held \/ held[k] # reported[k]}
    IN  [k \in ks |-> reported[k]]

\* The record of calculateAqi calls after the sensor loop of updateState: one
\* call for every changed key among the source keys, each reading the snapshot.
calculateAqiCalls(v, calls, held, reported) ==
    LET k == Cardinality(DOMAIN Changed(held, reported) \cap AqiSourceKeys(v))
    IN  IF k = 0 THEN calls
        ELSE [n |-> calls.n + k, input |-> held, result |-> calculateAqi(held)]

ChangedSensorData(v, held, reported) ==
    LET changed == Changed(held, reported)
    IN  IF DOMAIN changed \cap AqiSourceKeys(v) # {}
        THEN Spread(changed, calculateAqi(held))
        ELSE changed

\* An emission that precedes the writes to the snapshot.
SeenAtEmitBefore(before, after) == before

\* The snapshot the listeners of "stateUpdated" read: the emission follows the
\* two assignments, so it is the one already mutated.
SeenAtEmit(before, after) == after

NoLed == [calls |-> 0, last |-> "none", held |-> <<>>]

\* new BlueAirDevice(device)
Constructed(device) ==
    /\ state = device.state
    /\ sensorData = Spread(device.sensorData, calculateAqi(device.sensorData))
    /\ aqiCall = [n |-> 1, input |-> device.sensorData,
                  result |-> calculateAqi(device.sensorData)]
    /\ currentChanges = NoChanges
    /\ mutexHolder = NoTicket
    /\ mutexQueue = <<>>
    /\ cmdPc = [c \in CmdIds |-> "unused"]
    /\ cmdAttr = [c \in CmdIds |-> ""]
    /\ cmdVal = [c \in CmdIds |-> FALSE]
    /\ request = [c \in CmdIds |-> "none"]
    /\ gotSignal = [c \in CmdIds |-> 0]
    /\ cmdWrite = [c \in CmdIds |-> "none"]
    /\ pollPc = [u \in PollIds |-> "unused"]
    /\ pollArg = [u \in PollIds |-> NoReport]
    /\ observed = [state |-> state, sensorData |-> sensorData]
    /\ notified = EmptyMap
    /\ notifyCount = 0
    /\ expected = [state |-> state, sensorData |-> sensorData]
    /\ last_brightness = OrZero(device.state, "brightness")
    /\ led = NoLed

NoTimer == [armed |-> FALSE, due |-> 0]
NoCall == [n |-> 0, at |-> 0, speed |-> 0]
NoAdjust ==
    [n |-> 0, at |-> 0, from |-> 0, to |-> 0, diff |-> 0, gap |-> <<>>, sinceManual |-> <<>>]

\* new BlueAirAccessory(...) at instant t: the fields of the accessory.
AccessoryConstructedAt(t) ==
    /\ now = t
    /\ humidityAutoControlEnabled = FALSE
    /\ lastManualOverride = 0
    /\ lastAutoAdjust = 0
    /\ targetHumidity = <<>>
    /\ targetCall = <<>>
    /\ autoEvals = 0
    /\ autoAdjust = NoAdjust
    /\ pendingFanSpeed = <<>>
    /\ fanSpeedDebounceTimer = NoTimer
    /\ effectsInFlight = 0
    /\ lastCall = NoCall
    /\ lastRun = [n |-> 0, at |-> 0, speed |-> 0, call |-> NoCall]
    /\ bursts = 0

\* Time is counted from the construction of the accessory where only
\* differences of instants matter.
AccessoryConstructed == AccessoryConstructedAt(0)

NoArgs == [retryCount |-> 0, maxRetries |-> 0]
NoPoll == [outcome |-> "none", before |-> 0, delay |-> 0, after |-> 0]

\* new BlueAirPlatform(log, config, api) of definition def with the given
\* polling interval: nothing runs before didFinishLaunching.
PlatformConstructed(def, interval) ==
    /\ platformDef = def
    /\ pollingInterval = interval
    /\ initPc = "notStarted"
    /\ initArgs = NoArgs
    /\ initAttempts = 0
    /\ firstFailure = "none"
    /\ devicesAdded = FALSE
    /\ polling = "null"
    /\ otherTimers = 0
    /\ pollsInFlight = 0
    /\ pollAttempts = 0
    /\ retryCount = 0
    /\ handlersInFlight = 0
    /\ handlersRun = 0
    /\ lastPoll = NoPoll

\* defaultConfig.pollingInterval, in seconds
DefaultPollingInterval == 60

\* The platform before it has launched, as the device and accessory see it.
PlatformIdle == PlatformConstructed("platform", DefaultPollingInterval)

\* No value has been handed to the fan-speed mapping.
MappingIdle ==
    /\ constantsDef = "constants"
    /\ origin = "homekit"
    /\ hkValues = <<>>
    /\ deviceValues = <<>>

Init ==
    /\ variant \in CommandVariants
    /\ Constructed([state |-> InitialState, sensorData |-> InitialSensorData])
    /\ AccessoryConstructed
    /\ PlatformIdle
    /\ MappingIdle

\* The next call slot: calls are numbered in the order they are made.
NextCmd(c) == cmdPc[c] = "unused" /\ \A d \in CmdIds : d < c => cmdPc[d] # "unused"
NextPoll(u) == pollPc[u] = "unused" /\ \A w \in PollIds : w < u => pollPc[w] # "unused"

\* setState up to its first await: validation, the unchanged check, the
\* "setState" emission (the platform handler starts setDeviceStatus) and
\* mutex.acquire().
setState(c, attribute, value) ==
    /\ NextCmd(c)
    /\ cmdAttr' = [cmdAttr EXCEPT ![c] = attribute]
    /\ cmdVal' = [cmdVal EXCEPT ![c] = value]
    /\ \/ /\ Invalid(variant, state, attribute)
          /\ cmdPc' = [cmdPc EXCEPT ![c] = "threw"]
          /\ UNCHANGED <<request, mutexHolder, mutexQueue>>
       \/ /\ ~Invalid(variant, state, attribute)
          /\ Unchanged(state, attribute, value)
          /\ cmdPc' = [cmdPc EXCEPT ![c] = "returned"]
          /\ UNCHANGED <<request, mutexHolder, mutexQueue>>
       \/ /\ ~Invalid(variant, state, attribute)
          /\ ~Unchanged(state, attribute, value)
          /\ request' = [request EXCEPT ![c] = "inflight"]
          /\ LET m == Acquire(mutexHolder, mutexQueue, <<"set", c>>)
             IN  /\ mutexHolder' = m.holder
                 /\ mutexQueue' = m.queue
          /\ cmdPc' = [cmdPc EXCEPT ![c] = "acquire"]
    /\ UNCHANGED <<ledVars, accessoryVars, platformVars, mappingVars>>
    /\ UNCHANGED <<variant, aqiCall, state, sensorData, currentChanges, gotSignal, cmdWrite,
                   pollPc, pollArg, observed, notified, notifyCount, expected>>

\* setState after `await this.mutex.acquire()`: the once("setStateDone") listener
\* is registered.
setStateListen(c) ==
    /\ cmdPc[c] = "acquire"
    /\ Granted(mutexHolder, <<"set", c>>)
    /\ cmdPc' = [cmdPc EXCEPT ![c] = "listening"]
    /\ UNCHANGED <<ledVars, accessoryVars, platformVars, mappingVars>>
    /\ UNCHANGED <<variant, aqiCall, state, sensorData, currentChanges, mutexHolder, mutexQueue,
                   cmdAttr, cmdVal, request, gotSignal, cmdWrite, pollPc, pollArg,
                   observed, notified, notifyCount, expected>>

Listeners == {c \in CmdIds : cmdPc[c] = "listening"}

\* setDeviceStatus of call r settles and the platform handler emits
\* "setStateDone": every registered once-listener runs up to its await (release,
\* and on success the fold of the confirmed delta and mutex.acquire()).
setStateDone(r, success) ==
    /\ request[r] = "inflight"
    /\ request' = [request EXCEPT ![r] = IF success THEN "ok" ELSE "failed"]
    /\ \/ /\ Listeners = {}
          /\ UNCHANGED <<currentChanges, mutexHolder, mutexQueue, cmdPc, gotSignal,
                         cmdWrite, expected>>
       \/ \E l \in Listeners :
            LET rel == Release(mutexHolder, mutexQueue)
                newState == ConfirmedDelta(variant, cmdAttr[l], cmdVal[l])
                acq == Acquire(rel.holder, rel.queue, <<"merge", l>>)
            IN  /\ gotSignal' = [gotSignal EXCEPT ![l] = r]
                /\ \/ /\ success
                      /\ currentChanges' = Fold(currentChanges, newState, EmptyMap)
                      /\ expected' = [expected EXCEPT !.state = Spread(@, newState)]
                      /\ mutexHolder' = acq.holder
                      /\ mutexQueue' = acq.queue
                      /\ cmdPc' = [cmdPc EXCEPT ![l] = "merge"]
                      /\ cmdWrite' = [cmdWrite EXCEPT ![l] = "buffered"]
                   \/ /\ ~success
                      /\ mutexHolder' = rel.holder
                      /\ mutexQueue' = rel.queue
                      /\ cmdPc' = [cmdPc EXCEPT ![l] = "returned"]
                      /\ UNCHANGED <<currentChanges, expected, cmdWrite>>
    /\ UNCHANGED <<ledVars, accessoryVars, platformVars, mappingVars>>
    /\ UNCHANGED <<variant, aqiCall, state, sensorData, cmdAttr, cmdVal, pollPc, pollArg,
                   observed, notified, notifyCount>>

\* updateState, the "update" listener, up to the await inside notifyStateUpdate:
\* the diff against the snapshot, the fold and mutex.acquire().
updateState(u, newState) ==
    /\ NextPoll(u)
    /\ LET changedState == Changed(state, newState.state)
           changedSensorData == ChangedSensorData(variant, sensorData, newState.sensorData)
           m == Acquire(mutexHolder, mutexQueue, <<"poll", u>>)
       IN  /\ currentChanges' = Fold(currentChanges, changedState, changedSensorData)
           /\ expected' = [state |-> Spread(expected.state, changedState),
                           sensorData |-> Spread(expected.sensorData, changedSensorData)]
           /\ mutexHolder' = m.holder
           /\ mutexQueue' = m.queue
    /\ pollPc' = [pollPc EXCEPT ![u] = "acquire"]
    /\ pollArg' = [pollArg EXCEPT ![u] = newState]
    /\ aqiCall' = calculateAqiCalls(variant, aqiCall, sensorData, newState.sensorData)
    /\ UNCHANGED <<ledVars, accessoryVars, platformVars, mappingVars>>
    /\ UNCHANGED <<variant, state, sensorData, cmdPc, cmdAttr, cmdVal, request,
                   gotSignal, cmdWrite, observed, notified, notifyCount>>

\* Whether ticket t is a notifyStateUpdate call suspended in mutex.acquire().
MergeWaiting(t) ==
    \/ t[1] = "merge" /\ t[2] \in CmdIds /\ cmdPc[t[2]] = "merge"
    \/ t[1] = "poll" /\ t[2] \in PollIds /\ pollPc[t[2]] = "acquire"

MergeTickets == ({"merge"} \X CmdIds) \cup ({"poll"} \X PollIds)

\* notifyStateUpdate after `await this.mutex.acquire()`: one merge cycle (swap,
\* apply, notify, release); the caller of notifyStateUpdate then finishes.
notifyStateUpdate(t) ==
    /\ MergeWaiting(t)
    /\ Granted(mutexHolder, t)
    /\ LET changesToApply == currentChanges
           rel == Release(mutexHolder, mutexQueue)
       IN  /\ currentChanges' = NoChanges
           /\ IF hasChanges(changesToApply)
              THEN /\ state' = Spread(state, changesToApply.state)
                   /\ sensorData' = Spread(sensorData, changesToApply.sensorData)
                   /\ notified' = Spread(changesToApply.state, changesToApply.sensorData)
                   /\ notifyCount' = notifyCount + 1
                   /\ observed' = SeenAtEmit([state |-> state, sensorData |-> sensorData],
                                              [state |-> state', sensorData |-> sensorData'])
              ELSE UNCHANGED <<state, sensorData, observed, notified, notifyCount>>
           /\ mutexHolder' = rel.holder
           /\ mutexQueue' = rel.queue
    /\ cmdWrite' = [c \in CmdIds |-> IF cmdWrite[c] = "buffered" THEN "applied" ELSE cmdWrite[c]]
    /\ IF t[1] = "merge"
       THEN /\ cmdPc' = [cmdPc EXCEPT ![t[2]] = "returned"]
            /\ UNCHANGED pollPc
       ELSE /\ pollPc' = [pollPc EXCEPT ![t[2]] = "done"]
            /\ UNCHANGED cmdPc
    /\ UNCHANGED <<ledVars, accessoryVars, platformVars, mappingVars>>
    /\ UNCHANGED <<variant, aqiCall, cmdAttr, cmdVal, request, gotSignal, pollArg, expected>>

Next ==
    \/ \E c \in CmdIds, i \in 1..Len(Commands) :
            setState(c, Commands[i].attribute, Commands[i].value)
    \/ \E c \in CmdIds : setStateListen(c)
    \/ \E r \in CmdIds, success \in BOOLEAN : setStateDone(r, success)
    \/ \E u \in PollIds, i \in 1..Len(Reports) : updateState(u, Reports[i])
    \/ \E t \in MergeTickets : notifyStateUpdate(t)

Spec == Init /\ [][Next]_vars

\* The event loop runs every continuation that is ready (the continuation of a
\* granted mutex.acquire() in setState and in notifyStateUpdate), and
\* setDeviceStatus settles for every call that started it, so that the platform
\* handler emits "setStateDone" for it.
Fairness ==
    /\ \A c \in CmdIds : WF_vars(setStateListen(c))
    /\ \A r \in CmdIds : WF_vars(\E success \in BOOLEAN : setStateDone(r, success))
    /\ \A t \in MergeTickets : WF_vars(notifyStateUpdate(t))

SpecLive == Init /\ [][Next]_vars /\ Fairness

----------------------------------------------------------------------------
(* The AQI under poll updates: the device is constructed from any combination *)
(* of readings and receives sensor reports.                                   *)

\* pm2_5 readings in hundredths: the upper edge of every breakpoint row, values
\* that the rounding to one decimal moves into a row, and one above the table.
Pm25Readings == {0, 900, 904, 905, 3540, 5540, 12540, 22540, 32540, 32546}

\* pm10 and voc readings in tenths; 545 and 2205 lie between two rows.
Pm10Readings == {0, 100, 540, 545, 1540}
VocReadings == {0, 2200, 2205}

\* A reading the device does not report is an absent key.
Reading(k, values) == {EmptyMap} \cup {[j \in {k} |-> x] : x \in values}

ConstructedReadings ==
    {Spread(Spread(a, b), c) : a \in Reading("pm2_5", Pm25Readings),
                               b \in Reading("pm10", Pm10Readings),
                               c \in Reading("voc", VocReadings)}

\* Sensor reports of the poller: each changes one reading, the last one a
\* reading the AQI does not depend on.
AqiReports ==
    << [state |-> EmptyMap, sensorData |-> [pm2_5 |-> 3540]],
       [state |-> EmptyMap, sensorData |-> [pm10 |-> 545]],
       [state |-> EmptyMap, sensorData |-> [voc |-> 2200]],
       [state |-> EmptyMap, sensorData |-> [humidity |-> 40]] >>

InitAqi ==
    /\ variant \in Variants
    /\ \E readings \in ConstructedReadings :
            Constructed([state |-> InitialState, sensorData |-> readings])
    /\ AccessoryConstructed
    /\ PlatformIdle
    /\ MappingIdle

NextAqi ==
    \/ \E u \in PollIds, i \in 1..Len(AqiReports) : updateState(u, AqiReports[i])
    \/ \E t \in MergeTickets : notifyStateUpdate(t)

SpecAqi == InitAqi /\ [][NextAqi]_vars

----------------------------------------------------------------------------
(* The debounced fan-speed setter of BlueAirAccessory (accessory.ts, first    *)
(* definition).  Timers are punctual: a due timer fires before time passes    *)
(* and before any other event of the same instant.  The effect, the timer     *)
(* callback, is suspended in its device.setState calls for any length of      *)
(* time.                                                                      *)

\* Values HomeKit writes to RotationSpeed, in percent.
RotationSpeeds == {0, 50, 100}

Min2(a, b) == IF a <= b THEN a ELSE b
Max2(a, b) == IF a >= b THEN a ELSE b

\* Map HomeKit 0-100% to device 0-11.
DeviceSpeed(value) == Round(Max2(0, Min2(100, value)) * FAN_SPEED_MAX, 100)

TimerDue == fanSpeedDebounceTimer.armed /\ fanSpeedDebounceTimer.due <= now

\* setRotationSpeed: records the value and restarts the timer.
setRotationSpeed(value) ==
    /\ lastCall.n < MaxCalls
    /\ ~TimerDue
    /\ pendingFanSpeed' = <<DeviceSpeed(value)>>
    /\ fanSpeedDebounceTimer' = [armed |-> TRUE, due |-> now + DEBOUNCE_MS]
    /\ bursts' = IF lastCall.n = 0 \/ now - lastCall.at >= DEBOUNCE_MS
                 THEN bursts + 1 ELSE bursts
    /\ lastCall' = [n |-> lastCall.n + 1, at |-> now, speed |-> DeviceSpeed(value)]
    /\ UNCHANGED <<now, effectsInFlight, lastRun>>
    /\ UNCHANGED <<humidityAutoControlEnabled, lastManualOverride, controlVars>>
    /\ UNCHANGED <<deviceVars, platformVars, mappingVars>>

\* The timer callback up to its first await: it returns when no value is
\* pending, otherwise the effect starts with the pending value, humidity
\* tracking is switched off and, unless the value selects night mode, the
\* instant is recorded as the last manual override.
fanSpeedDebounceTimerFires ==
    /\ TimerDue
    /\ fanSpeedDebounceTimer' = [fanSpeedDebounceTimer EXCEPT !.armed = FALSE]
    /\ IF pendingFanSpeed = <<>>
       THEN UNCHANGED <<effectsInFlight, lastRun, humidityAutoControlEnabled,
                        lastManualOverride>>
       ELSE /\ effectsInFlight' = effectsInFlight + 1
            /\ lastRun' = [n |-> lastRun.n + 1, at |-> now,
                           speed |-> pendingFanSpeed[1], call |-> lastCall]
            /\ humidityAutoControlEnabled' = FALSE
            /\ lastManualOverride' = IF pendingFanSpeed[1] <= 1
                                     THEN lastManualOverride ELSE now
    /\ UNCHANGED <<now, pendingFanSpeed, lastCall, bursts, controlVars>>
    /\ UNCHANGED <<deviceVars, platformVars, mappingVars>>

\* The end of the timer callback, after its last device.setState resolved.
fanSpeedEffectDone ==
    /\ effectsInFlight > 0
    /\ effectsInFlight' = effectsInFlight - 1
    /\ pendingFanSpeed' = <<>>
    /\ UNCHANGED <<now, fanSpeedDebounceTimer, lastCall, lastRun, bursts>>
    /\ UNCHANGED <<humidityAutoControlEnabled, lastManualOverride, controlVars>>
    /\ UNCHANGED <<deviceVars, platformVars, mappingVars>>

TimePasses ==
    /\ now + Tick <= MaxTime * Tick
    /\ ~TimerDue
    /\ now' = now + Tick
    /\ UNCHANGED <<pendingFanSpeed, fanSpeedDebounceTimer, effectsInFlight, lastCall,
                   lastRun, bursts>>
    /\ UNCHANGED <<humidityAutoControlEnabled, lastManualOverride, controlVars>>
    /\ UNCHANGED <<deviceVars, platformVars, mappingVars>>

InitDebounce ==
    /\ variant = "accessory_1"
    /\ Constructed([state |-> InitialState, sensorData |-> InitialSensorData])
    /\ AccessoryConstructed
    /\ PlatformIdle
    /\ MappingIdle

NextDebounce ==
    \/ \E value \in RotationSpeeds : setRotationSpeed(value)
    \/ fanSpeedDebounceTimerFires
    \/ fanSpeedEffectDone
    \/ TimePasses

SpecDebounce == InitDebounce /\ [][NextDebounce]_vars

----------------------------------------------------------------------------
(* The humidity control loop of a humidifier accessory (both definitions of  *)
(* BlueAirAccessory in accessory.ts).  The device is reduced to its snapshot *)
(* here: a merge cycle applies what a report changes and notifies the        *)
(* accessory, and a device.setState call of the accessory is recorded as     *)
(* issued; what the sink confirms of it reaches the snapshot in a later      *)
(* merge cycle, like any other change.  The clock does not run backwards.    *)

HUMIDITY_MIN == 30
HUMIDITY_MAX == 80

\* `?? 60`, the target when neither the device nor the configuration has one.
FALLBACK_TARGET == 60

\* The window of both rate limits of maybeAutoAdjustFanSpeed, in ms.
COOLDOWN_MS == 60000

\* Date.now() when the accessory is constructed: an instant further from 0
\* than the window, as every present instant is.
Epoch == 120000

\* A clamp that lets every value through.
ClampNone(lo, hi, v) == v

\* Math.max(lo, Math.min(hi, v))
Clamp(lo, hi, v) == Max2(lo, Min2(hi, v))

\* findHumidityTargetAttribute over the keys the snapshot has here: only the
\* patterns of the first definition match "autorh"; <<>> is null.
findHumidityTargetAttribute(v, st) ==
    IF v # "accessory_2" /\ "autorh" \in DOMAIN st THEN <<"autorh">> ELSE <<>>

getTargetRelativeHumidity(v, st, configured) ==
    LET attr == findHumidityTargetAttribute(v, st)
    IN  IF attr # <<>>
        THEN Clamp(HUMIDITY_MIN, HUMIDITY_MAX, st[attr[1]])
        ELSE Clamp(HUMIDITY_MIN, HUMIDITY_MAX,
                   IF configured # <<>> THEN configured[1] ELSE FALLBACK_TARGET)

\* The fan presets of the second definition: Sleep, 1, 2, 3.
Presets == {0, 1, 2, 3}

pickHigher(speed) ==
    LET above == {p \in Presets : speed < p}
    IN  IF above = {} THEN 3 ELSE CHOOSE p \in above : \A q \in above : p <= q

pickLower(speed) ==
    LET below == {p \in Presets : speed > p}
    IN  IF below = {} THEN 0 ELSE CHOOSE p \in below : \A q \in below : p >= q

\* A comparison without a dead zone: every difference moves the fan.
NewSpeedNoDeadZone(v, speed, diff) ==
    IF diff > 0
    THEN IF v = "accessory_2" THEN pickHigher(speed)
         ELSE Min2(FAN_SPEED_MAX, speed + (IF diff > 5 THEN 2 ELSE 1))
    ELSE IF diff < 0
    THEN IF v = "accessory_2" THEN pickLower(speed)
         ELSE Max2(0, speed - (IF diff < -8 THEN 2 ELSE 1))
    ELSE speed

\* The hysteresis comparison: the speed chosen for diff = target - current.
NewSpeed(v, speed, diff) ==
    IF diff > 2
    THEN IF v = "accessory_2" THEN pickHigher(speed)
         ELSE Min2(FAN_SPEED_MAX, speed + (IF diff > 5 THEN 2 ELSE 1))
    ELSE IF diff < -4
    THEN IF v = "accessory_2" THEN pickLower(speed)
         ELSE Max2(0, speed - (IF diff < -8 THEN 2 ELSE 1))
    ELSE speed

\* `if (st[k])`
Truthy(st, k) == k \in DOMAIN st /\ st[k] = TRUE

\* Guards that leave night mode out.
AutoGuardsNoNightmode(enabled, st) ==
    /\ enabled
    /\ ~Truthy(st, "standby")
    /\ ~("automode" \in DOMAIN st /\ st["automode"] = FALSE)

\* The four early returns of maybeAutoAdjustFanSpeed on a humidifier.
AutoGuards(enabled, st) ==
    /\ enabled
    /\ ~Truthy(st, "standby")
    /\ ~Truthy(st, "nightmode")
    /\ ~("automode" \in DOMAIN st /\ st["automode"] = FALSE)

\* A rate limit that never holds back.
CooledDownAlways(t, last) == TRUE

\* `now - last < 60000` does not return.
CooledDown(t, last) == t - last >= COOLDOWN_MS

\* `sensorData.humidity ?? 0`
CurrentHumidity(data) == IF "humidity" \in DOMAIN data THEN data["humidity"] ELSE 0

\* `state.fanspeed ?? 0`
CurrentSpeed(st) == IF "fanspeed" \in DOMAIN st THEN st["fanspeed"] ELSE 0

\* maybeAutoAdjustFanSpeed at instant t: whether the run reaches the
\* comparison, the difference target - current and the speed it read, and the
\* speed it commands (the speed it read when it commands nothing).
maybeAutoAdjustFanSpeed(v, enabled, st, data, configured, lastAuto, lastManual, t) ==
    LET compares == /\ AutoGuards(enabled, st)
                    /\ CooledDown(t, lastAuto)
                    /\ CooledDown(t, lastManual)
                    /\ CurrentHumidity(data) # 0
        diff == getTargetRelativeHumidity(v, st, configured) - CurrentHumidity(data)
        speed == CurrentSpeed(st)
    IN  [compares |-> compares,
         diff |-> diff,
         speed |-> speed,
         newSpeed |-> IF compares THEN NewSpeed(v, speed, diff) ELSE speed]

\* One merge cycle of the device and its "stateUpdated" listener,
\* updateCharacteristics: the changes of a report are applied and notified, and
\* a notification that has the standby key runs maybeAutoAdjustFanSpeed, which
\* records the instant and issues device.setState("fanspeed", newSpeed) when
\* the speed it chose differs from the one it read.
updateCharacteristics(report) ==
    /\ notifyCount < MaxUpdates
    /\ LET changedState == Changed(state, report.state)
           changedSensorData == ChangedSensorData(variant, sensorData, report.sensorData)
       IN  /\ hasChanges([state |-> changedState, sensorData |-> changedSensorData])
           /\ state' = Spread(state, changedState)
           /\ sensorData' = Spread(sensorData, changedSensorData)
           /\ notified' = Spread(changedState, changedSensorData)
    /\ notifyCount' = notifyCount + 1
    /\ observed' = [state |-> state', sensorData |-> sensorData']
    /\ aqiCall' = calculateAqiCalls(variant, aqiCall, sensorData, report.sensorData)
    /\ IF "standby" \in DOMAIN notified'
       THEN LET run == maybeAutoAdjustFanSpeed(variant, humidityAutoControlEnabled,
                           state', sensorData', targetHumidity,
                           lastAutoAdjust, lastManualOverride, now)
            IN  /\ autoEvals' = autoEvals + (IF run.compares THEN 1 ELSE 0)
                /\ IF run.newSpeed # run.speed
                   THEN /\ lastAutoAdjust' = now
                        /\ autoAdjust' =
                              [n |-> autoAdjust.n + 1, at |-> now,
                               from |-> run.speed, to |-> run.newSpeed,
                               diff |-> run.diff,
                               gap |-> IF autoAdjust.n = 0 THEN <<>>
                                       ELSE <<now - autoAdjust.at>>,
                               sinceManual |-> IF lastCall.n = 0 THEN <<>>
                                               ELSE <<now - lastCall.at>>]
                   ELSE UNCHANGED <<lastAutoAdjust, autoAdjust>>
       ELSE UNCHANGED <<autoEvals, lastAutoAdjust, autoAdjust>>
    /\ UNCHANGED <<now, pendingFanSpeed, fanSpeedDebounceTimer, effectsInFlight, lastCall,
                   lastRun, bursts, humidityAutoControlEnabled, lastManualOverride,
                   targetHumidity, targetCall>>
    /\ UNCHANGED <<variant, currentChanges, mutexHolder, mutexQueue, cmdPc, cmdAttr, cmdVal,
                   request, gotSignal, cmdWrite, pollPc, pollArg, expected>>
    /\ UNCHANGED <<ledVars, platformVars, mappingVars>>

\* The speed the second definition of setRotationSpeed maps a percentage to.
DiscreteSpeed(value) ==
    LET hkSpeed == Max2(0, Min2(100, value))
    IN  IF hkSpeed <= 25 THEN 0 ELSE IF hkSpeed <= 50 THEN 1
        ELSE IF hkSpeed <= 75 THEN 2 ELSE 3

\* setRotationSpeed of the second definition, up to its first await: tracking
\* is switched off and the instant recorded at once.
setRotationSpeedDiscrete(value) ==
    /\ variant = "accessory_2"
    /\ lastCall.n < MaxInputs
    /\ humidityAutoControlEnabled' = FALSE
    /\ lastManualOverride' = now
    /\ lastCall' = [n |-> lastCall.n + 1, at |-> now, speed |-> DiscreteSpeed(value)]
    /\ UNCHANGED <<now, pendingFanSpeed, fanSpeedDebounceTimer, effectsInFlight, lastRun,
                   bursts, controlVars>>
    /\ UNCHANGED <<deviceVars, platformVars, mappingVars>>

\* setTargetRelativeHumidity up to its first await: the clamped value goes to
\* the device when the snapshot has a target attribute, else into the
\* configuration; the call is then suspended in device.setState.
setTargetRelativeHumidity(value) ==
    /\ targetCall = <<>>
    /\ LET desired == Clamp(HUMIDITY_MIN, HUMIDITY_MAX, value)
       IN  /\ targetCall' = <<desired>>
           /\ targetHumidity' = IF findHumidityTargetAttribute(variant, state) = <<>>
                                THEN <<desired>> ELSE targetHumidity
    /\ UNCHANGED <<now, pendingFanSpeed, fanSpeedDebounceTimer, effectsInFlight, lastCall,
                   lastRun, bursts, humidityAutoControlEnabled, lastManualOverride,
                   lastAutoAdjust, autoEvals, autoAdjust>>
    /\ UNCHANGED <<deviceVars, platformVars, mappingVars>>

\* setTargetRelativeHumidity after its last device.setState resolved.
setTargetRelativeHumidityDone ==
    /\ targetCall # <<>>
    /\ targetCall' = <<>>
    /\ humidityAutoControlEnabled' = TRUE
    /\ UNCHANGED <<now, pendingFanSpeed, fanSpeedDebounceTimer, effectsInFlight, lastCall,
                   lastRun, bursts, lastManualOverride, lastAutoAdjust, targetHumidity,
                   autoEvals, autoAdjust>>
    /\ UNCHANGED <<deviceVars, platformVars, mappingVars>>

\* Time passes up to the instant the pending timer is due, or by one window.
CooldownPasses ==
    /\ ~TimerDue
    /\ now' = IF fanSpeedDebounceTimer.armed THEN fanSpeedDebounceTimer.due
              ELSE now + COOLDOWN_MS
    /\ now' <= Epoch + MaxWindows * COOLDOWN_MS
    /\ UNCHANGED <<pendingFanSpeed, fanSpeedDebounceTimer, effectsInFlight, lastCall,
                   lastRun, bursts, humidityAutoControlEnabled, lastManualOverride,
                   controlVars>>
    /\ UNCHANGED <<deviceVars, platformVars, mappingVars>>

\* Humidity readings around the target 30, on both sides of both thresholds;
\* 0 is no data.
HumidityReadings == {0, 27, 28, 34, 35, 40}

\* The target attribute the device reports: a value below the range.
TargetAttributes == {10}

\* The fan speed the device starts with: both definitions can step it up and down.
FanSpeeds == {2, 11}

\* Values HomeKit writes to RotationSpeed here: one selects night mode (Sleep),
\* one a fan speed.
ManualInputs == {0, 100}

\* Values HomeKit writes to the target humidity.
TargetInputs == {20, 90}

\* The state of a humidifier in standby, but for its fan speed and target.
InitialHumidifierState ==
    [standby |-> TRUE, fanspeed |-> 2, nightmode |-> FALSE, automode |-> TRUE, autorh |-> 10]

\* The statuses a humidifier is constructed from.
HumidifierStatuses ==
    {[state |-> [InitialHumidifierState EXCEPT !.fanspeed = s, !.autorh = a],
      sensorData |-> [humidity |-> h]] :
        s \in FanSpeeds, a \in TargetAttributes, h \in HumidityReadings}

\* What the merge cycles bring: the device leaves and enters standby, and the
\* commands of the manual fan setter are confirmed one by one (automode off,
\* night mode on).
AutoReports ==
    << [state |-> [standby |-> FALSE], sensorData |-> EmptyMap],
       [state |-> [standby |-> TRUE], sensorData |-> EmptyMap],
       [state |-> [automode |-> FALSE], sensorData |-> EmptyMap],
       [state |-> [nightmode |-> TRUE], sensorData |-> EmptyMap] >>

\* The report that confirms the last command of the control loop.
AdjustConfirmed == [state |-> [fanspeed |-> autoAdjust.to], sensorData |-> EmptyMap]

\* The merge cycle that applies the confirmed delta of the last command of
\* the control loop.
adjustConfirmed ==
    /\ autoAdjust.n > 0
    /\ updateCharacteristics(AdjustConfirmed)

\* setRotationSpeed of the first definition.
setRotationSpeedDebounced(value) ==
    /\ variant = "accessory_1"
    /\ lastCall.n < MaxInputs
    /\ setRotationSpeed(value)

InitAuto ==
    /\ variant \in {"accessory_1", "accessory_2"}
    /\ \E device \in HumidifierStatuses : Constructed(device)
    /\ AccessoryConstructedAt(Epoch)
    /\ PlatformIdle
    /\ MappingIdle

NextAuto ==
    \/ \E i \in 1..Len(AutoReports) : updateCharacteristics(AutoReports[i])
    \/ adjustConfirmed
    \/ \E value \in TargetInputs : setTargetRelativeHumidity(value)
    \/ setTargetRelativeHumidityDone
    \/ \E value \in ManualInputs : setRotationSpeedDebounced(value)
    \/ \E value \in ManualInputs : setRotationSpeedDiscrete(value)
    \/ fanSpeedDebounceTimerFires
    \/ fanSpeedEffectDone
    \/ CooldownPasses

SpecAuto == InitAuto /\ [][NextAuto]_vars

----------------------------------------------------------------------------
(* BlueAirPlatform: the initial load of the devices, the polling chain and   *)
(* the "setState" handler (platform.ts, and its earlier definition in        *)
(* part_004, which loads once and starts polling without a delay).  Timers   *)
(* are not timed here: a pending timer fires at any later moment.  An error  *)
(* is an Error whose message either names a rate limit or does not.          *)

Outcomes == {"ok", "rate limit", "other"}

\* private readonly MAX_RETRY_COUNT = 5
MAX_RETRY_COUNT == 5

\* The cap of the back-off, in ms
MAX_RETRY_DELAY == 600000

\* The delay after a failure that is no rate limit, in ms
ERROR_RETRY_DELAY == 5000

\* The default of getInitialDeviceStates' maxRetries
INITIAL_MAX_RETRIES == 5

\* The polling intervals of the two default configurations, in seconds.
PollingIntervals == {60, 15000}

\* A retry rule that follows every rate-limit error with another attempt.
InitialRetryUnlimited(def, outcome, args) ==
    IF def = "platform" /\ outcome = "rate limit"
    THEN <<[retryCount |-> args.retryCount + 1, maxRetries |-> args.maxRetries]>>
    ELSE <<>>

\* The catch block of getInitialDeviceStates: the arguments of the attempt it
\* schedules, <<>> when it schedules none.
InitialRetry(def, outcome, args) ==
    IF def = "part_004" \/ outcome = "ok" THEN <<>>
    ELSE IF outcome = "rate limit"
         THEN IF args.retryCount < args.maxRetries
              THEN <<[retryCount |-> args.retryCount + 1, maxRetries |-> args.maxRetries]>>
              ELSE <<>>
         ELSE IF args.retryCount = 0
              THEN <<[retryCount |-> 1, maxRetries |-> 1]>>
              ELSE <<>>

\* A back-off without the cap.
RetryDelayUncapped(outcome, interval, count) ==
    CASE outcome = "ok" -> interval * 1000
      [] outcome = "rate limit" -> interval * 1000 * 2 ^ (count + 1)
      [] OTHER -> ERROR_RETRY_DELAY

\* The delay of the timer getValidDevicesStatus ends with, count being
\* this.retryCount when the call settled.
RetryDelay(outcome, interval, count) ==
    CASE outcome = "ok" -> interval * 1000
      [] outcome = "rate limit" ->
            Min2(interval * 1000 * 2 ^ (count + 1), MAX_RETRY_DELAY)
      [] OTHER -> ERROR_RETRY_DELAY

\* this.retryCount after getValidDevicesStatus settled.
NextRetryCount(outcome, count) ==
    CASE outcome = "ok" -> 0
      [] outcome = "rate limit" ->
            IF count + 1 >= MAX_RETRY_COUNT THEN 0 ELSE count + 1
      [] OTHER -> count

\* A handle that stays as it was: no timer is set.
SetTimeoutNever(handle) == handle

\* `this.polling = setTimeout(...)`: the handle holds a pending timer.
SetTimeout(handle) == "pending"

\* The timers an assignment to this.polling leaves pending without a handle.
Orphaned(handle) == IF handle = "pending" THEN 1 ELSE 0

\* `this.polling && clearTimeout(this.polling)`
ClearTimeout(handle) == IF handle = "pending" THEN "spent" ELSE handle

\* Pending timers whose callback is getValidDevicesStatus.
PendingPollTimers == otherTimers + Orphaned(polling)

initVars == <<initPc, initArgs, initAttempts, firstFailure, devicesAdded>>

\* api.on("didFinishLaunching"): the first call of getInitialDeviceStates.
didFinishLaunching ==
    /\ initPc = "notStarted"
    /\ initPc' = "inFlight"
    /\ initAttempts' = 1
    /\ initArgs' = [retryCount |-> 0, maxRetries |-> INITIAL_MAX_RETRIES]
    /\ UNCHANGED <<platformDef, pollingInterval, firstFailure, devicesAdded, polling,
                   otherTimers, pollsInFlight, pollAttempts, retryCount,
                   handlersInFlight, handlersRun, lastPoll>>
    /\ UNCHANGED <<deviceVars, accessoryVars, mappingVars>>

\* getInitialDeviceStates from the settling of login and getDeviceStatus to its
\* return; after the first call the didFinishLaunching handler resumes and
\* starts the polling (with a timer, or at once in the earlier definition).
getInitialDeviceStatesSettles(outcome) ==
    /\ initPc = "inFlight"
    /\ devicesAdded' = (devicesAdded \/ outcome = "ok")
    /\ firstFailure' = IF firstFailure = "none" /\ outcome # "ok"
                       THEN outcome ELSE firstFailure
    /\ LET retry == InitialRetry(platformDef, outcome, initArgs)
       IN  IF retry = <<>>
           THEN initPc' = "done" /\ UNCHANGED initArgs
           ELSE initPc' = "waiting" /\ initArgs' = retry[1]
    /\ IF initAttempts > 1
       THEN UNCHANGED <<otherTimers, pollsInFlight, pollAttempts>>
       ELSE IF platformDef = "platform"
            THEN /\ otherTimers' = otherTimers + 1
                 /\ UNCHANGED <<pollsInFlight, pollAttempts>>
            ELSE /\ pollsInFlight' = pollsInFlight + 1
                 /\ pollAttempts' = pollAttempts + 1
                 /\ UNCHANGED otherTimers
    /\ UNCHANGED <<platformDef, pollingInterval, initAttempts, polling, retryCount,
                   handlersInFlight, handlersRun, lastPoll>>
    /\ UNCHANGED <<deviceVars, accessoryVars, mappingVars>>

\* The retry timer of getInitialDeviceStates fires: the next attempt.
initialRetryTimerFires ==
    /\ initPc = "waiting"
    /\ initAttempts < MaxInitAttempts
    /\ initPc' = "inFlight"
    /\ initAttempts' = initAttempts + 1
    /\ UNCHANGED <<platformDef, pollingInterval, initArgs, firstFailure, devicesAdded,
                   polling, otherTimers, pollsInFlight, pollAttempts, retryCount,
                   handlersInFlight, handlersRun, lastPoll>>
    /\ UNCHANGED <<deviceVars, accessoryVars, mappingVars>>

\* The timer this.polling holds fires: getValidDevicesStatus up to its await.
pollingTimerFires ==
    /\ polling = "pending"
    /\ pollAttempts < MaxAttempts
    /\ polling' = "spent"
    /\ pollsInFlight' = pollsInFlight + 1
    /\ pollAttempts' = pollAttempts + 1
    /\ UNCHANGED <<platformDef, pollingInterval, initVars, otherTimers, retryCount,
                   handlersInFlight, handlersRun, lastPoll>>
    /\ UNCHANGED <<deviceVars, accessoryVars, mappingVars>>

\* A timer this.polling does not hold fires: getValidDevicesStatus up to its
\* await.
unheldTimerFires ==
    /\ otherTimers > 0
    /\ pollAttempts < MaxAttempts
    /\ otherTimers' = otherTimers - 1
    /\ pollsInFlight' = pollsInFlight + 1
    /\ pollAttempts' = pollAttempts + 1
    /\ UNCHANGED <<platformDef, pollingInterval, initVars, polling, retryCount,
                   handlersInFlight, handlersRun, lastPoll>>
    /\ UNCHANGED <<deviceVars, accessoryVars, mappingVars>>

\* getValidDevicesStatus after getDeviceStatus settled: the retry counter, the
\* delay and the next timer.
getValidDevicesStatus(outcome) ==
    /\ pollsInFlight > 0
    /\ pollsInFlight' = pollsInFlight - 1
    /\ retryCount' = NextRetryCount(outcome, retryCount)
    /\ lastPoll' = [outcome |-> outcome, before |-> retryCount,
                    delay |-> RetryDelay(outcome, pollingInterval, retryCount),
                    after |-> retryCount']
    /\ otherTimers' = otherTimers + Orphaned(polling)
    /\ polling' = SetTimeout(polling)
    /\ UNCHANGED <<platformDef, pollingInterval, initVars, pollAttempts,
                   handlersInFlight, handlersRun>>
    /\ UNCHANGED <<deviceVars, accessoryVars, mappingVars>>

\* The "setState" handler up to its await: the polling timer is cleared and
\* setDeviceStatus started.
setStateHandler ==
    /\ devicesAdded
    /\ handlersRun < MaxCmds
    /\ polling' = ClearTimeout(polling)
    /\ handlersInFlight' = handlersInFlight + 1
    /\ handlersRun' = handlersRun + 1
    /\ UNCHANGED <<platformDef, pollingInterval, initVars, otherTimers, pollsInFlight,
                   pollAttempts, retryCount, lastPoll>>
    /\ UNCHANGED <<deviceVars, accessoryVars, mappingVars>>

\* The finally block of the "setState" handler, after setDeviceStatus resolved
\* or rejected: the polling timer is cleared and set again.
setStateHandlerDone ==
    /\ handlersInFlight > 0
    /\ handlersInFlight' = handlersInFlight - 1
    /\ LET cleared == ClearTimeout(polling)
       IN  /\ otherTimers' = otherTimers + Orphaned(cleared)
           /\ polling' = SetTimeout(cleared)
    /\ UNCHANGED <<platformDef, pollingInterval, initVars, pollsInFlight, pollAttempts,
                   retryCount, handlersRun, lastPoll>>
    /\ UNCHANGED <<deviceVars, accessoryVars, mappingVars>>

InitPlatform ==
    /\ variant = "part_003"
    /\ Constructed([state |-> InitialState, sensorData |-> InitialSensorData])
    /\ AccessoryConstructed
    /\ \E def \in {"part_004", "platform"}, interval \in PollingIntervals :
            PlatformConstructed(def, interval)
    /\ MappingIdle

NextPlatform ==
    \/ didFinishLaunching
    \/ \E outcome \in Outcomes : getInitialDeviceStatesSettles(outcome)
    \/ initialRetryTimerFires
    \/ pollingTimerFires
    \/ unheldTimerFires
    \/ \E outcome \in Outcomes : getValidDevicesStatus(outcome)
    \/ setStateHandler
    \/ setStateHandlerDone

SpecPlatform == InitPlatform /\ [][NextPlatform]_vars

----------------------------------------------------------------------------
(* The LED switch of BlueAirDevice (both definitions in accessory.ts).  The  *)
(* calls are confirmed and follow one another: each setLedOn below is the    *)
(* whole call, from the write of last_brightness to the merge cycle of the   *)
(* confirmed brightness.  Poll updates change the brightness in between.     *)

\* Brightness values of the device, in percent.
LedLevels == {0, 50, 100}

\* setLedOn(value) with its setState("brightness", ...) confirmed and merged.
setLedOn(value) ==
    /\ led.calls < MaxLedCalls
    /\ last_brightness' = IF value THEN last_brightness ELSE OrZero(state, "brightness")
    /\ LET brightness == IF value THEN last_brightness' ELSE 0
           newState == ConfirmedDelta(variant, "brightness", brightness)
       IN  IF Unchanged(state, "brightness", brightness)
           THEN UNCHANGED <<state, notified, notifyCount, observed, expected>>
           ELSE /\ state' = Spread(state, newState)
                /\ notified' = newState
                /\ notifyCount' = notifyCount + 1
                /\ observed' = [state |-> state', sensorData |-> sensorData]
                /\ expected' = [expected EXCEPT !.state = Spread(@, newState)]
    /\ led' = [calls |-> led.calls + 1,
               last |-> IF value THEN "on" ELSE "off",
               held |-> IF ~value /\ OrZero(state, "brightness") # 0
                        THEN <<state["brightness"]>> ELSE led.held]
    /\ UNCHANGED <<variant, sensorData, currentChanges, mutexHolder, mutexQueue, cmdPc,
                   cmdAttr, cmdVal, request, gotSignal, cmdWrite, pollPc, pollArg, aqiCall>>
    /\ UNCHANGED <<accessoryVars, platformVars, mappingVars>>

\* A poll update that reports another brightness, with its merge cycle.
brightnessReported(level) ==
    /\ notifyCount < MaxUpdates
    /\ ~Unchanged(state, "brightness", level)
    /\ LET changedState == Changed(state, [brightness |-> level])
       IN  /\ state' = Spread(state, changedState)
           /\ notified' = changedState
           /\ expected' = [expected EXCEPT !.state = Spread(@, changedState)]
    /\ notifyCount' = notifyCount + 1
    /\ observed' = [state |-> state', sensorData |-> sensorData]
    /\ led' = [led EXCEPT !.last = "none"]
    /\ UNCHANGED <<variant, sensorData, currentChanges, mutexHolder, mutexQueue, cmdPc,
                   cmdAttr, cmdVal, request, gotSignal, cmdWrite, pollPc, pollArg, aqiCall,
                   last_brightness>>
    /\ UNCHANGED <<accessoryVars, platformVars, mappingVars>>

InitLed ==
    /\ variant \in {"accessory_1", "accessory_2"}
    /\ \E level \in LedLevels :
            Constructed([state |-> [InitialState EXCEPT !.brightness = level],
                         sensorData |-> InitialSensorData])
    /\ AccessoryConstructed
    /\ PlatformIdle
    /\ MappingIdle

NextLed ==
    \/ \E value \in BOOLEAN : setLedOn(value)
    \/ \E level \in LedLevels : brightnessReported(level)

SpecLed == InitLed /\ [][NextLed]_vars

----------------------------------------------------------------------------
(* The fan-speed mapping between HomeKit and the device *)

\* The two definitions of the mapping: constants.ts and its earlier copy.
ConstantsDefs == {"constants", "part_001"}

\* The speeds the device runs at.
FAN_SPEED_LEVELS == {0, 11, 37, 64}

\* The slider positions the definition declares.
FAN_SPEED_HOMEKIT_VALUES(def) ==
    IF def = "constants" THEN {0, 33, 66, 100} ELSE {0, 25, 50, 75, 100}

\* RotationSpeed is a percentage.
HkSpeeds == 0..100

\* The speeds a device can report: anything up to its highest level.
DeviceSpeeds == 0..64

\* The device-side value of a definition: a speed in constants.ts, a speed
\* with the two mode flags in part_001.
DeviceValues(def) ==
    IF def = "constants"
    THEN {[speed |-> s] : s \in DeviceSpeeds}
    ELSE {[speed |-> s, isNightMode |-> n, isStandby |-> b] :
            s \in DeviceSpeeds, n \in BOOLEAN, b \in BOOLEAN}

\* Map a HomeKit percentage to the device side.
fanSpeedHomeKitToDevice(def, hkSpeed) ==
    IF def = "constants"
    THEN [speed |-> IF hkSpeed <= 16 THEN 0
                    ELSE IF hkSpeed <= 49 THEN 11
                    ELSE IF hkSpeed <= 83 THEN 37
                    ELSE 64]
    ELSE IF hkSpeed <= 12
         THEN [speed |-> 0, isNightMode |-> FALSE, isStandby |-> TRUE]
    ELSE IF hkSpeed <= 37
         THEN [speed |-> 0, isNightMode |-> TRUE, isStandby |-> FALSE]
    ELSE IF hkSpeed <= 62
         THEN [speed |-> 11, isNightMode |-> FALSE, isStandby |-> FALSE]
    ELSE IF hkSpeed <= 87
         THEN [speed |-> 37, isNightMode |-> FALSE, isStandby |-> FALSE]
    ELSE [speed |-> 64, isNightMode |-> FALSE, isStandby |-> FALSE]

\* Map the device side to a HomeKit percentage.
fanSpeedDeviceToHomeKit(def, d) ==
    IF def = "constants"
    THEN IF d.speed <= 5 THEN 0
         ELSE IF d.speed <= 24 THEN 33
         ELSE IF d.speed <= 50 THEN 66
         ELSE 100
    ELSE IF d.isStandby THEN 0
    ELSE IF d.isNightMode THEN 25
    ELSE IF d.speed <= 5 THEN 25
    ELSE IF d.speed <= 24 THEN 50
    ELSE IF d.speed <= 50 THEN 75
    ELSE 100

\* Conversions applied to the value so far.
Conversions ==
    Len(hkValues) + Len(deviceValues) - 1

\* The value last produced is on the HomeKit side.
LatestIsHomeKit ==
    IF origin = "homekit" THEN Len(hkValues) > Len(deviceValues)
                          ELSE Len(hkValues) = Len(deviceValues)

\* A value HomeKit wrote, or one read back for it, is mapped for the device.
toDevice ==
    /\ Conversions < MaxConversions
    /\ LatestIsHomeKit
    /\ deviceValues' = Append(deviceValues,
            fanSpeedHomeKitToDevice(constantsDef, hkValues[Len(hkValues)]))
    /\ UNCHANGED <<constantsDef, origin, hkValues>>
    /\ UNCHANGED <<deviceVars, accessoryVars, platformVars>>

\* A value the device holds is mapped for HomeKit.
toHomeKit ==
    /\ Conversions < MaxConversions
    /\ ~LatestIsHomeKit
    /\ hkValues' = Append(hkValues,
            fanSpeedDeviceToHomeKit(constantsDef, deviceValues[Len(deviceValues)]))
    /\ UNCHANGED <<constantsDef, origin, deviceValues>>
    /\ UNCHANGED <<deviceVars, accessoryVars, platformVars>>

InitMapping ==
    /\ variant = "part_003"
    /\ Constructed([state |-> InitialState, sensorData |-> InitialSensorData])
    /\ AccessoryConstructed
    /\ PlatformIdle
    /\ constantsDef \in ConstantsDefs
    /\ \/ /\ origin = "homekit"
          /\ \E h \in HkSpeeds : hkValues = <<h>>
          /\ deviceValues = <<>>
       \/ /\ origin = "device"
          /\ \E d \in DeviceValues(constantsDef) : deviceValues = <<d>>
          /\ hkValues = <<>>

NextMapping ==
    \/ toDevice
    \/ toHomeKit

SpecMapping == InitMapping /\ [][NextMapping]_vars

----------------------------------------------------------------------------
(* Properties *)

\* Every notifyStateUpdate call has run its merge cycle.
AllMergesDone ==
    /\ \A c \in CmdIds : cmdPc[c] # "merge"
    /\ \A u \in PollIds : pollPc[u] # "acquire"

\* Some notifyStateUpdate call is suspended in mutex.acquire(), owning the lock
\* or queued for it.
MergePending ==
    \E t \in MergeTickets :
        /\ MergeWaiting(t)
        /\ \/ mutexHolder = t
           \/ \E i \in 1..Len(mutexQueue) : mutexQueue[i] = t

\* C1: once every notifyStateUpdate call has completed, the snapshot is the
\* key-wise last-write-wins fold, in call order, of all the deltas passed to
\* notifyStateUpdate over the initial snapshot.
C1_NoLostUpdates ==
    AllMergesDone =>
        /\ state = expected.state
        /\ sensorData = expected.sensorData

\* Two confirmed commands and a poll update were all merged, their deltas
\* coalesced into fewer cycles than calls.
C1_Witness ==
    /\ AllMergesDone
    /\ \A c \in {1, 2} : cmdWrite[c] = "applied"
    /\ pollPc[1] = "done"
    /\ notifyCount = 1
    /\ state # InitialState

\* C2: a command's delta is in the snapshot only if the sink request issued for
\* that very command has completed with success.
C2_WrittenOnlyAfterOwnConfirmation ==
    \A c \in CmdIds : cmdWrite[c] = "applied" => request[c] = "ok"

\* C3: the setStateDone signal a waiting setState call consumes is the one
\* emitted for the sink request of that call.
C3_OwnConfirmation ==
    \A c \in CmdIds : gotSignal[c] \in {0, c}

\* C4: no folded delta is dropped: every folded key/value is in the pending
\* buffer or already applied to the snapshot, and a non-empty pending buffer
\* always has a notifyStateUpdate call waiting on the lock that will apply it.
C4_NoDeltaDropped ==
    /\ Spread(state, currentChanges.state) = expected.state
    /\ Spread(sensorData, currentChanges.sensorData) = expected.sensorData
    /\ hasChanges(currentChanges) => MergePending

\* A poll delta folded while a command awaits its confirmation has been applied
\* by a later cycle.
C4_Witness ==
    \E c \in CmdIds :
        /\ cmdPc[c] = "returned"
        /\ gotSignal[c] # 0
        /\ pollPc[1] = "done"
        /\ ~hasChanges(currentChanges)
        /\ state.fanspeed = 3

\* C5: the sink never has two unresolved proposals of the device at once.
C5_OneProposalAtATime ==
    Cardinality({c \in CmdIds : request[c] = "inflight"}) <= 1

\* A step in which call c enters setState with these arguments.
CallsSetState(c, attribute, value) ==
    /\ cmdPc[c] = "unused"
    /\ cmdPc'[c] # "unused"
    /\ cmdAttr'[c] = attribute
    /\ cmdVal'[c] = value

\* C6: setState(name, v) while the snapshot holds exactly v for name returns
\* without contacting the sink, without touching the lock, without a
\* notification and without changing the snapshot or the pending buffer.
C6_Idempotent ==
    [][\A c \in CmdIds, i \in 1..Len(Commands) :
         ( /\ CallsSetState(c, Commands[i].attribute, Commands[i].value)
           /\ Commands[i].attribute \in DOMAIN state
           /\ state[Commands[i].attribute] = Commands[i].value )
         => /\ cmdPc'[c] = "returned"
            /\ UNCHANGED <<state, sensorData, currentChanges, mutexHolder,
                           mutexQueue, request, notified, notifyCount>>]_vars

\* A setState call with the value the snapshot holds has returned.
C6_Witness ==
    \E c \in CmdIds :
        /\ cmdPc[c] = "returned"
        /\ request[c] = "none"
        /\ cmdAttr[c] \in DOMAIN state
        /\ state[cmdAttr[c]] = cmdVal[c]
        /\ gotSignal[c] = 0

\* C7: a setState call on a name that is no key of the state has thrown and has
\* not contacted the sink.
C7_UnknownAttributeFails ==
    \A c \in CmdIds :
        (cmdPc[c] # "unused" /\ cmdAttr[c] \notin DOMAIN state)
            => (cmdPc[c] = "threw" /\ request[c] = "none")

\* C8: a command whose proposal the sink rejected leaves no trace in the pending
\* buffer or the snapshot.
C8_RejectedLeavesSnapshot ==
    \A c \in CmdIds : request[c] = "failed" => cmdWrite[c] = "none"

\* C9: a notification that carries nightmode=true carries brightness=0.
C9_NightmodeBrightness ==
    ("nightmode" \in DOMAIN notified /\ notified["nightmode"] = TRUE)
        => ("brightness" \in DOMAIN notified /\ notified["brightness"] = 0)

\* A step in which the notifyStateUpdate call t completes.
CompletesMerge(t) ==
    /\ MergeWaiting(t)
    /\ IF t[1] = "merge" THEN cmdPc'[t[2]] = "returned" ELSE pollPc'[t[2]] = "done"

\* C10: merge cycles are serialized by the lock: a command awaiting its
\* confirmation owns the lock, and every step that swaps the pending buffer,
\* writes the snapshot or notifies is the merge cycle of the one call that owns
\* the lock, taken while no command awaits a confirmation.
C10_CyclesSerialized ==
    /\ [](\A c \in CmdIds : cmdPc[c] = "listening" => mutexHolder = <<"set", c>>)
    /\ [][( \/ state' # state
            \/ sensorData' # sensorData
            \/ notifyCount' # notifyCount
            \/ (hasChanges(currentChanges) /\ ~hasChanges(currentChanges')) )
          => ( /\ Listeners = {}
               /\ \E t \in MergeTickets : CompletesMerge(t) /\ mutexHolder = t )]_vars

\* A command's merge and a poll's merge both ran, in two cycles.
C10_Witness ==
    \E c \in CmdIds :
        /\ cmdWrite[c] = "applied"
        /\ cmdPc[c] = "returned"
        /\ pollPc[1] = "done"
        /\ notifyCount = 2

\* The value the listeners of the last notification found under key k.
ObservedValue(k) ==
    IF k \in DOMAIN observed.state THEN observed.state[k] ELSE observed.sensorData[k]

\* C11: when a stateUpdated notification is delivered, the snapshot its
\* listeners read already holds, for every key of the notification, the value
\* the notification carries.
C11_NotifyAfterMutate ==
    notifyCount > 0 =>
        \A k \in DOMAIN notified :
            /\ k \in DOMAIN observed.state \cup DOMAIN observed.sensorData
            /\ ObservedValue(k) = notified[k]

\* A notification of a changed standby was delivered.
C11_Witness ==
    /\ notifyCount > 0
    /\ "standby" \in DOMAIN notified
    /\ notified["standby"] = FALSE
    /\ observed.state # InitialState

\* The notifyStateUpdate calls that have run their merge cycle.
CompletedMerges ==
    {<<"merge", c>> : c \in {d \in CmdIds : cmdPc[d] = "returned" /\ cmdWrite[d] = "applied"}}
        \cup {<<"poll", u>> : u \in {w \in PollIds : pollPc[w] = "done"}}

\* C12: N notifyStateUpdate calls produce at most N notifications; a cycle whose
\* swapped-out buffer is non-empty emits exactly one notification, whose keys
\* are the union of the state and sensor keys of that buffer with the buffered
\* values, a cycle whose swapped-out buffer is empty emits none, and nothing
\* else emits.
C12_OneNotificationPerCycle ==
    /\ [](notifyCount <= Cardinality(CompletedMerges))
    /\ [][ /\ \A t \in MergeTickets :
                CompletesMerge(t) =>
                    IF currentChanges = NoChanges
                    THEN notifyCount' = notifyCount /\ notified' = notified
                    ELSE /\ notifyCount' = notifyCount + 1
                         /\ DOMAIN notified' =
                                DOMAIN currentChanges.state \cup DOMAIN currentChanges.sensorData
                         /\ \A k \in DOMAIN currentChanges.state :
                                notified'[k] = currentChanges.state[k]
                         /\ \A k \in DOMAIN currentChanges.sensorData :
                                notified'[k] = currentChanges.sensorData[k]
           /\ (notifyCount' # notifyCount) => \E t \in MergeTickets : CompletesMerge(t) ]_vars

\* Three calls were merged by one cycle that notified state and sensor keys
\* together; the other two cycles found the buffer empty.
C12_Witness ==
    /\ Cardinality(CompletedMerges) = 3
    /\ notifyCount = 1
    /\ {"standby", "brightness", "pm10"} \subseteq DOMAIN notified

\* Every key of the pending buffer has, in the snapshot, the buffered value.
BufferEqualsSnapshot ==
    /\ \A k \in DOMAIN currentChanges.state :
            k \in DOMAIN state /\ state[k] = currentChanges.state[k]
    /\ \A k \in DOMAIN currentChanges.sensorData :
            k \in DOMAIN sensorData /\ sensorData[k] = currentChanges.sensorData[k]

\* C13: a merge cycle whose buffered deltas all equal the values the snapshot
\* holds applies nothing and emits no notification.
C13_NoOpMergeSilent ==
    [][\A t \in MergeTickets :
            (CompletesMerge(t) /\ BufferEqualsSnapshot)
                => UNCHANGED <<state, sensorData, notified, notifyCount>>]_vars

\* The scenario of C14 has run to its end: the only command is
\* setState("standby", false), confirmed by its own request, the only poll
\* update reports fanspeed=3, and both notifyStateUpdate calls have completed.
StandbyAndPollDone ==
    /\ cmdPc[1] = "returned"
    /\ cmdAttr[1] = "standby"
    /\ cmdVal[1] = FALSE
    /\ request[1] = "ok"
    /\ gotSignal[1] = 1
    /\ \A c \in CmdIds \ {1} : cmdPc[c] = "unused"
    /\ pollPc[1] = "done"
    /\ pollArg[1] = Reports[1]
    /\ \A u \in PollIds \ {1} : pollPc[u] = "unused"

\* C14 as stated: the scenario ends with standby=false and fanspeed=3 after
\* two notifications.
C14_TwoNotifications ==
    StandbyAndPollDone =>
        /\ state.standby = FALSE
        /\ state.fanspeed = 3
        /\ notifyCount = 2

\* C14 amended: the scenario ends with standby=false and fanspeed=3 after two
\* serialized merge cycles that emit one or two notifications; when there is
\* one, it carries both keys.
C14_OneOrTwoNotifications ==
    StandbyAndPollDone =>
        /\ state.standby = FALSE
        /\ state.fanspeed = 3
        /\ Cardinality(CompletedMerges) = 2
        /\ notifyCount \in {1, 2}
        /\ notifyCount = 1 => notified = [standby |-> FALSE, fanspeed |-> 3]

\* The poll update arrived while the command awaited its confirmation: one cycle
\* applied both deltas.
C14_Witness ==
    /\ StandbyAndPollDone
    /\ notifyCount = 1
    /\ state.standby = FALSE
    /\ state.fanspeed = 3

\* The positions of ticket t in the queue of the lock.
QueuedAt(t) == {i \in 1..Len(mutexQueue) : mutexQueue[i] = t}

\* C15 as stated: a notifyStateUpdate call never waits for the lock; a call that
\* has folded its delta and not yet finished is never behind another holder.
C15_NeverWaits ==
    \A t \in MergeTickets : MergeWaiting(t) => mutexHolder = t

\* C15 amended: a notifyStateUpdate call that has folded its delta stays
\* suspended in mutex.acquire() until the lock is its own: it owns the lock, or
\* another caller owns it and the call holds exactly one place in the queue;
\* a call that is not suspended holds neither.
C15_WaitsForLock ==
    \A t \in MergeTickets :
        IF MergeWaiting(t)
        THEN \/ mutexHolder = t /\ QueuedAt(t) = {}
             \/ mutexHolder \notin {t, NoTicket} /\ Cardinality(QueuedAt(t)) = 1
        ELSE mutexHolder # t /\ QueuedAt(t) = {}

\* A poll update waits in the queue of the lock behind a command that awaits
\* its confirmation, its delta in the pending buffer.
C15_Witness ==
    /\ \E c \in CmdIds : cmdPc[c] = "listening" /\ mutexHolder = <<"set", c>>
    /\ pollPc[1] = "acquire"
    /\ QueuedAt(<<"poll", 1>>) # {}
    /\ hasChanges(currentChanges)

\* C16: a confirmed delta that is not yet in the snapshot is still covered by
\* the lock of its command (no other acquirer owns the lock before the delta is
\* applied), and a call that returned after a successful confirmation has had
\* its delta applied.
C16_MergedBeforeRelease ==
    \A c \in CmdIds :
        /\ cmdWrite[c] = "buffered" => mutexHolder = <<"merge", c>>
        /\ (cmdPc[c] = "returned" /\ gotSignal[c] # 0 /\ request[gotSignal[c]] = "ok")
                => cmdWrite[c] = "applied"

\* The three readings the AQI is computed from, as far as data holds them.
SourceReadings(data) ==
    [k \in DOMAIN data \cap {"pm2_5", "pm10", "voc"} |-> data[k]]

\* The last calculateAqi call read the fine-particulate reading x (in
\* hundredths) with the other two readings 0.
AqiOfPm25Alone(x) ==
    SourceReadings(aqiCall.input) = [pm2_5 |-> x, pm10 |-> 0, voc |-> 0]

\* C18 as stated: 9.0 gives 50, 35.4 gives 100 and 125.4 gives 300.
C18_BoundariesAsStated ==
    /\ AqiOfPm25Alone(900) => aqiCall.result = [aqi |-> 50]
    /\ AqiOfPm25Alone(3540) => aqiCall.result = [aqi |-> 100]
    /\ AqiOfPm25Alone(12540) => aqiCall.result = [aqi |-> 300]

\* C18 amended: 9.0 gives 50, 35.4 gives 100, 125.4 gives 200 and 225.4 gives
\* 300; the upper edge of every row of the fine-particulate table gives the
\* upper index of that row.
C18_BoundariesOfTable ==
    /\ AqiOfPm25Alone(900) => aqiCall.result = [aqi |-> 50]
    /\ AqiOfPm25Alone(3540) => aqiCall.result = [aqi |-> 100]
    /\ AqiOfPm25Alone(12540) => aqiCall.result = [aqi |-> 200]
    /\ AqiOfPm25Alone(22540) => aqiCall.result = [aqi |-> 300]
    /\ \A i \in 1..Len(AQI_HI) :
            AqiOfPm25Alone(10 * CONC_HI("PM2_5")[i]) => aqiCall.result = [aqi |-> AQI_HI[i]]

\* calculateAqi ran on a fine-particulate reading of 125.4 alone, in a poll
\* update, and returned 200.
C18_Witness ==
    /\ AqiOfPm25Alone(12540)
    /\ aqiCall.n > 1
    /\ aqiCall.result = [aqi |-> 200]

\* idx is the half-up rounding of the linear interpolation of value in the first
\* row of the sensor's table that contains it, or 0 when no row contains it.
IsIndex(idx, value, sensor) ==
    LET rows == {i \in 1..Len(AQI_LO) :
                    CONC_LO(sensor)[i] <= value /\ value <= CONC_HI(sensor)[i]}
    IN  IF rows = {} THEN idx = 0
        ELSE \E i \in rows :
                /\ \A q \in rows : i <= q
                /\ LET den == CONC_HI(sensor)[i] - CONC_LO(sensor)[i]
                       num == AQI_LO[i] * den
                                + (AQI_HI[i] - AQI_LO[i]) * (value - CONC_LO(sensor)[i])
                   IN  (2 * idx - 1) * den <= 2 * num /\ 2 * num < (2 * idx + 1) * den

IndexOf(value, sensor) ==
    CHOOSE idx \in 0..AQI_HI[Len(AQI_HI)] : IsIndex(idx, value, sensor)

\* The tenth nearest to a reading in hundredths, halves upwards.
NearestTenth(x) ==
    CHOOSE t \in 0..(x \div 10 + 1) : 10 * t - 5 <= x /\ x < 10 * t + 5

ChangedSources(reported) ==
    {k \in {"pm2_5", "pm10", "voc"} \cap DOMAIN reported :
        k \notin DOMAIN sensorData \/ sensorData[k] # reported[k]}

\* C20: a poll update recomputes the AQI, and adds it to the pending delta,
\* exactly when it changes at least one of pm2_5, pm10 and voc.
C20_RecomputedIffSourceChanged ==
    [][\A u \in PollIds :
            (pollPc[u] = "unused" /\ pollPc'[u] = "acquire")
                => /\ (aqiCall'.n # aqiCall.n)
                        <=> (ChangedSources(pollArg'[u].sensorData) # {})
                   /\ ("aqi" \in DOMAIN currentChanges'.sensorData
                            /\ "aqi" \notin DOMAIN currentChanges.sensorData)
                        => ChangedSources(pollArg'[u].sensorData) # {}]_vars

\* C17: every burst of setRotationSpeed calls whose window has elapsed has
\* caused exactly one run of the effect and a burst whose timer is still
\* pending none; a run follows the last call of its burst by at least the
\* window and carries that call's value.
C17_OneRunPerBurst ==
    /\ lastRun.n = bursts - (IF fanSpeedDebounceTimer.armed THEN 1 ELSE 0)
    /\ lastRun.n > 0 =>
            /\ lastRun.speed = lastRun.call.speed
            /\ lastRun.at >= lastRun.call.at + DEBOUNCE_MS

\* The difference target - current the control loop would compute from the
\* snapshot and the configuration.
HumidityDiff ==
    getTargetRelativeHumidity(variant, state, targetHumidity) - CurrentHumidity(sensorData)

\* C21: the control loop issues no fan-speed command on a difference
\* target - current inside the dead zone -4..2: every command it has issued
\* was computed from a difference above 2 or below -4, however many runs
\* reached the comparison.
C21_DeadZone ==
    autoAdjust.n > 0 => (autoAdjust.diff > 2 \/ autoAdjust.diff < -4)

\* With tracking enabled, a humidity of 28 or 34 against the target 30 (the two
\* edges of the dead zone) went through the comparison twice and no command
\* was issued.
C21_Witness ==
    /\ variant = "accessory_1"
    /\ humidityAutoControlEnabled
    /\ state["autorh"] = 10
    /\ HumidityDiff \in {-4, 2}
    /\ autoEvals >= 2
    /\ autoAdjust.n = 0

\* C22: every command of the control loop moves the fan speed by exactly one
\* level from the speed it read, up when target - current is above 2 and down
\* when it is below -4, whatever the size of the difference.
C22_SingleStep ==
    autoAdjust.n > 0 =>
        \/ autoAdjust.diff > 2 /\ autoAdjust.to = autoAdjust.from + 1
        \/ autoAdjust.diff < -4 /\ autoAdjust.to = autoAdjust.from - 1

\* C23: two successive commands of the control loop are at least the cooldown
\* window apart.
C23_RateLimited ==
    autoAdjust.gap # <<>> => autoAdjust.gap[1] >= 60000

\* The control loop issued a second command exactly one window after the
\* first, which the sink had not confirmed: it read the same speed again.
C23_Witness ==
    /\ autoAdjust.n = 2
    /\ autoAdjust.gap = <<COOLDOWN_MS>>
    /\ autoAdjust.from = CurrentSpeed(InitialHumidifierState)
    /\ CurrentSpeed(state) = autoAdjust.from

\* C24: a command the control loop issues after a manual fan-speed input
\* follows that input by at least the cooldown window.
C24_ManualWins ==
    autoAdjust.sinceManual # <<>> => autoAdjust.sinceManual[1] >= 60000

\* C25: a step in which the control loop issues a command or writes
\* lastAutoAdjust is a run on a snapshot in which tracking is enabled, standby
\* is false, nightmode is not set and automode is not false.
C25_GuardsRequired ==
    [][(autoAdjust' # autoAdjust \/ lastAutoAdjust' # lastAutoAdjust)
            => /\ humidityAutoControlEnabled
               /\ "standby" \in DOMAIN state' /\ state'["standby"] = FALSE
               /\ ~("nightmode" \in DOMAIN state' /\ state'["nightmode"] = TRUE)
               /\ ~("automode" \in DOMAIN state' /\ state'["automode"] = FALSE)]_vars

\* The control loop has just issued a command, all guards holding.
C25_Witness ==
    /\ autoAdjust.n = 1
    /\ autoAdjust.at = now
    /\ lastAutoAdjust = now
    /\ humidityAutoControlEnabled
    /\ state["standby"] = FALSE
    /\ state["nightmode"] = FALSE
    /\ state["automode"] = TRUE
    /\ "standby" \in DOMAIN notified

\* C27: the value setTargetRelativeHumidity proposes, to the device or to the
\* configuration, and the value getTargetRelativeHumidity reports are within
\* 30..80.
C27_TargetInRange ==
    /\ targetCall # <<>> => targetCall[1] \in 30..80
    /\ targetHumidity # <<>> => targetHumidity[1] \in 30..80
    /\ getTargetRelativeHumidity(variant, state, targetHumidity) \in 30..80

\* An input of 90 was proposed as 80 while the device reports a target of 10,
\* which getTargetRelativeHumidity reports as 30.
C27_Witness ==
    /\ variant = "accessory_1"
    /\ targetCall = <<80>>
    /\ state["autorh"] = 10
    /\ getTargetRelativeHumidity(variant, state, targetHumidity) = 30


\* C26: blueAirApi.setDeviceStatus is started exactly once for every setState
\* call that is not rejected and whose value differs from the snapshot at the
\* call, and for no other call; and every request so started is settled by at
\* most one "setStateDone" emission, success or failure, after which it is
\* never started or settled again.
C26_OneRequestOneSignal ==
    [][\A c \in CmdIds :
         LET called == cmdPc[c] = "unused" /\ cmdPc'[c] # "unused"
             differs == /\ cmdPc'[c] # "threw"
                        /\ \/ cmdAttr'[c] \notin DOMAIN state
                           \/ state[cmdAttr'[c]] # cmdVal'[c]
         IN  /\ (request[c] = "none" /\ request'[c] # "none")
                    <=> (called /\ differs)
             /\ request[c] = "none" => request'[c] \in {"none", "inflight"}
             /\ request[c] = "inflight" => request'[c] \in {"inflight", "ok", "failed"}
             /\ request[c] \in {"ok", "failed"} => request'[c] = request[c]
      ]_vars

\* One call was confirmed, the other rejected by the service, both have
\* returned, and each request was settled once.
C26_Witness ==
    /\ request[1] = "failed"
    /\ request[2] = "ok"
    /\ \A c \in CmdIds : cmdPc[c] = "returned"


\* C28: a merge cycle overwrites key by key.  In every step, each key of the
\* snapshot's state and of its sensor data is still a key afterwards, a key
\* outside the applied buffer keeps its value, and a key of the buffer takes the
\* buffer's value; no key appears that was in neither.
C28_ShallowOverwrite ==
    [][/\ DOMAIN state' = DOMAIN state \cup
              (IF state' # state THEN DOMAIN currentChanges.state ELSE {})
       /\ DOMAIN sensorData' = DOMAIN sensorData \cup
              (IF sensorData' # sensorData THEN DOMAIN currentChanges.sensorData ELSE {})
       /\ \A k \in DOMAIN state :
            /\ k \in DOMAIN state'
            /\ k \notin DOMAIN currentChanges.state => state'[k] = state[k]
            /\ state'[k] # state[k] => state'[k] = currentChanges.state[k]
       /\ \A k \in DOMAIN sensorData :
            /\ k \in DOMAIN sensorData'
            /\ k \notin DOMAIN currentChanges.sensorData => sensorData'[k] = sensorData[k]
            /\ sensorData'[k] # sensorData[k] => sensorData'[k] = currentChanges.sensorData[k]
      ]_vars

\* A merge cycle applied a buffer holding one state key and the sensor keys of
\* one reading: those took the reported values and every other key is as
\* constructed.
C28_Witness ==
    /\ {"brightness", "pm10"} \subseteq DOMAIN notified
    /\ DOMAIN notified \cap DOMAIN state = {"brightness"}
    /\ state = [InitialState EXCEPT !.brightness = 30]
    /\ sensorData["pm10"] = 540
    /\ sensorData["pm2_5"] = InitialSensorData["pm2_5"]
    /\ sensorData["voc"] = InitialSensorData["voc"]


\* Whether value lies in no breakpoint row of the sensor's table.
InNoRow(value, sensor) ==
    \A i \in 1..Len(AQI_LO) : value < CONC_LO(sensor)[i] \/ value > CONC_HI(sensor)[i]

\* C29: a reading that lies in no breakpoint row of its pollutant contributes
\* the index 0 to the AQI: the value calculateAqi returns is the index of one of
\* the readings that lie in a row, and 0 when none does.  So the index falls
\* from 500 to 0 where the fine-particulate reading leaves the last row, and a
\* reading in the gap between two rows gives 0 as well.
C29_NoRowGivesZero ==
    LET r == SourceReadings(aqiCall.input)
        value(k) == IF k \in DOMAIN r THEN r[k] ELSE 0
        taken == [pm2_5 |-> NearestTenth(value("pm2_5")),
                  pm10 |-> value("pm10"),
                  voc |-> value("voc")]
        table == [pm2_5 |-> "PM2_5", pm10 |-> "PM10", voc |-> "VOC"]
        inRow == {k \in DOMAIN taken : ~InNoRow(taken[k], table[k])}
    IN  DOMAIN r # {} =>
            /\ aqiCall.result["aqi"] \in {0} \cup {IndexOf(taken[k], table[k]) : k \in inRow}
            /\ inRow = {} => aqiCall.result["aqi"] = 0
            /\ r = [pm2_5 |-> 32540, pm10 |-> 0, voc |-> 0] => aqiCall.result["aqi"] = 500
            /\ r = [pm2_5 |-> 32546, pm10 |-> 0, voc |-> 0] => aqiCall.result["aqi"] = 0
            /\ r = [pm2_5 |-> 0, pm10 |-> 545, voc |-> 0] => aqiCall.result["aqi"] = 0
            /\ r = [pm2_5 |-> 0, pm10 |-> 0, voc |-> 2205] => aqiCall.result["aqi"] = 0

\* A poll update made calculateAqi run on a fine-particulate reading of 325.46
\* alone, which rounds to 325.5, above the last row; it returned 0.
C29_Witness ==
    /\ aqiCall.n > 1
    /\ SourceReadings(aqiCall.input) = [pm2_5 |-> 32546]
    /\ InNoRow(NearestTenth(32546), "PM2_5")
    /\ aqiCall.result = [aqi |-> 0]


\* C30: when every request is settled and every ready continuation runs, every
\* setState call that was made returns (or is rejected) and the lock, once
\* taken, becomes free again.
C30_EveryCallReturns ==
    /\ \A c \in CmdIds :
            (cmdPc[c] # "unused") ~> (cmdPc[c] \in {"returned", "threw"})
    /\ (mutexHolder # NoTicket) ~> (mutexHolder = NoTicket)


\* C31: a poll update leaves every state key it reports on course for the
\* reported value: right after updateState, the value the key will hold once
\* the pending buffer is merged (the buffer's value, else the snapshot's) is the
\* one reported.  Only a command confirmed later may then write another value.
C31_ConvergesToReport ==
    [][\A u \in PollIds :
            (pollPc[u] = "unused" /\ pollPc'[u] = "acquire")
                => LET reported == pollArg'[u].state
                       pending == Spread(state, currentChanges'.state)
                   IN  \A k \in DOMAIN reported : pending[k] = reported[k]]_vars


\* C32: after a merge cycle that applied a change of pm2_5, pm10 or voc, the aqi
\* of the snapshot is the one calculateAqi gives for the readings the snapshot
\* now holds.
C32_AqiOfCurrentReadings ==
    (notifyCount > 0 /\ DOMAIN notified \cap {"pm2_5", "pm10", "voc"} # {})
        => LET aqi == calculateAqi(sensorData)
           IN  \A k \in DOMAIN aqi : k \in DOMAIN sensorData /\ sensorData[k] = aqi[k]


\* C33: while the timer of a burst is pending, the value of the burst's last
\* setRotationSpeed call is the value the callback will send when it fires,
\* whatever earlier effects finish in the meantime.
C33_LastValueSent ==
    fanSpeedDebounceTimer.armed => pendingFanSpeed = <<lastCall.speed>>


\* C34: at most one timer of getValidDevicesStatus is pending at any time.
C34_OnePollScheduled ==
    PendingPollTimers <= 1

\* C35: polling never stops.  Once the polling has started, a poll is pending,
\* in flight, or held back by a command in flight; and every step in which a
\* call of getValidDevicesStatus settles, with whatever outcome, or in which the
\* "setState" handler finishes, leaves this.polling holding a pending timer.
C35_PollingNeverStops ==
    /\ [](pollAttempts > 0 => PendingPollTimers + pollsInFlight + handlersInFlight >= 1)
    /\ [][(pollsInFlight' < pollsInFlight \/ handlersInFlight' < handlersInFlight)
            => (polling' = "pending" /\ PendingPollTimers' >= 1)]_vars

\* A poll failed on a rate limit after a command had finished, no call is in
\* flight, and the next poll is scheduled.
C35_Witness ==
    /\ lastPoll.outcome = "rate limit"
    /\ pollAttempts >= 2
    /\ handlersRun >= 1
    /\ handlersInFlight = 0
    /\ pollsInFlight = 0
    /\ PendingPollTimers >= 1

\* C36: after a rate-limit failure the delay is the interval doubled once for
\* every failure counted, capped at 600000 ms; after another failure it is
\* 5000 ms and the counter is left alone; a success and the fifth counted
\* failure reset the counter, which is within 0..4 between attempts.
C36_BackoffBounded ==
    /\ retryCount \in 0..4
    /\ lastPoll.outcome = "rate limit" =>
            LET counted == lastPoll.before + 1
                doubled == pollingInterval * 1000 * 2 ^ counted
            IN  /\ lastPoll.delay = (IF doubled < 600000 THEN doubled ELSE 600000)
                /\ lastPoll.delay <= 600000
                /\ lastPoll.after = (IF counted = 5 THEN 0 ELSE counted)
    /\ lastPoll.outcome = "other" =>
            /\ lastPoll.delay = 5000
            /\ lastPoll.after = lastPoll.before
    /\ lastPoll.outcome = "ok" => lastPoll.after = 0

\* The fifth rate-limit failure in a row, at an interval of 60 s: the delay is
\* capped and the counter back at 0.
C36_Witness ==
    /\ pollingInterval = 60
    /\ lastPoll = [outcome |-> "rate limit", before |-> 4, delay |-> 600000, after |-> 0]
    /\ retryCount = 0

\* C37: getInitialDeviceStates is called at most six times, at most twice when
\* the first failure was not a rate limit, and after the sixth call no retry is
\* pending.
C37_InitialLoadTerminates ==
    /\ initAttempts <= 6
    /\ firstFailure = "other" => initAttempts <= 2
    /\ initAttempts = 6 => initPc # "waiting"

\* Six attempts failed on a rate limit and the load has given up.
C37_Witness ==
    /\ platformDef = "platform"
    /\ firstFailure = "rate limit"
    /\ initAttempts = 6
    /\ initPc = "done"
    /\ ~devicesAdded


\* C38: after a confirmed setLedOn(true) the brightness is the one the snapshot
\* held, not zero, when the LED was switched off, however many times
\* setLedOn(false) was repeated in between.
C38_LedRestored ==
    (led.last = "on" /\ led.held # <<>>) => state["brightness"] = led.held[1]


\* C39: every fan speed the control loop proposes is within 0..11 and differs
\* from the snapshot's; no command is issued from speed 11 when more humidity
\* is needed nor from speed 0 when less is, and lastAutoAdjust is written only
\* together with a command.
C39_WithinBounds ==
    /\ autoAdjust.n > 0 =>
            /\ autoAdjust.to \in 0..11
            /\ autoAdjust.to # autoAdjust.from
            /\ ~(autoAdjust.from = 11 /\ autoAdjust.diff > 2)
            /\ ~(autoAdjust.from = 0 /\ autoAdjust.diff < -4)
    /\ lastAutoAdjust = (IF autoAdjust.n = 0 THEN 0 ELSE autoAdjust.at)

\* C40: the fan-speed mapping round-trips: a device level 0, 11, 37 or 64
\* mapped to HomeKit and back is the same speed, and a HomeKit position 0, 33,
\* 66 or 100 mapped to the device and back is the same percentage.
C40_RoundTrip ==
    /\ (origin = "device" /\ Len(deviceValues) >= 2
            /\ deviceValues[1].speed \in FAN_SPEED_LEVELS)
        => deviceValues[2].speed = deviceValues[1].speed
    /\ (origin = "homekit" /\ Len(hkValues) >= 2
            /\ hkValues[1] \in {0, 33, 66, 100})
        => hkValues[2] = hkValues[1]

====
